---- MODULE Spec2Model ----
(***************************************************************************)
(* A model of the anko rule engine (package anko, package extras):         *)
(* policy resolution (buildPreamble), the compilation cache and the rule   *)
(* executor (Engine.RunRule and the four category entry points), and the   *)
(* per-category validation of the value a rule leaves in "result".         *)
(*                                                                         *)
(* Strings that the code takes apart (imports, function keys) are          *)
(* sequences of lexemes, so that HasPrefix, TrimPrefix and ReplaceAll are  *)
(* computed.  Program text is a sequence of lexemes too: the line break    *)
(* NL, a binding statement, an import statement, and the rule body.        *)
(***************************************************************************)
EXTENDS Integers, Sequences, FiniteSets, TLC

VARIABLES
    Rules,          \* Engine.Rules: rule identifier -> Rule
    Functions,      \* Engine.Functions: function key -> snippet literal
    Env,            \* Engine.Env: [isNil, m: variable name -> Go value]
    compiledCache,  \* Engine.compiledCache: rule identifier -> compiled program
    lastInputs,     \* Engine.lastInputs: rule identifier -> fingerprint
    denyLibs,       \* Engine.denyLibs
    CacheEnabled,   \* Engine.CacheEnabled
    last,           \* what the most recent public operation did and returned
    prev,           \* the same for the operation before it
    nOps,           \* number of public operations performed so far
    polIn,          \* arguments of a buildPreamble call under study
    polOut,         \* what that call returned and logged
    valIn,          \* a category and a value of result to validate
    valOut,         \* what the category's validation returned
    procs,          \* concurrent invocations: goroutine -> its call and locals
    crashed,        \* the Go runtime aborted the process on a concurrent map access
    http,           \* a call of the req module's get or post under study
    logCall,        \* a call of one of the log module's functions under study
    bound           \* an environment, the env object built from it, and the
                    \* assignments a script has made through that object

vars == <<Rules, Functions, Env, compiledCache, lastInputs, denyLibs,
          CacheEnabled, last, prev, nOps, polIn, polOut, valIn, valOut,
          procs, crashed, http, logCall, bound>>

engineVars == <<Rules, Functions, Env, compiledCache, lastInputs, denyLibs,
                CacheEnabled, last, prev, nOps>>

polVars == <<polIn, polOut>>

valVars == <<valIn, valOut>>

concVars == <<procs, crashed>>

reqVars == <<http>>

logVars == <<logCall>>

bindVars == <<bound>>

sharedVars == <<Rules, Functions, Env, compiledCache, lastInputs, denyLibs, CacheEnabled>>

-----------------------------------------------------------------------------
(* Generic helpers.                                                        *)

Range(s) == {s[i] : i \in 1..Len(s)}

RECURSIVE SeqsUpTo(_, _)
SeqsUpTo(S, n) ==
    IF n = 0 THEN {<<>>}
    ELSE LET shorter == SeqsUpTo(S, n - 1)
         IN  shorter \cup {Append(s, x) : s \in {t \in shorter : Len(t) = n - 1}, x \in S}

EmptyMap == [k \in {} |-> 0]

Has(m, k) == k \in DOMAIN m

MapSet(m, k, v) == [x \in DOMAIN m \cup {k} |-> IF x = k THEN v ELSE m[x]]

MapDelete(m, k) == [x \in DOMAIN m \ {k} |-> m[x]]

-----------------------------------------------------------------------------
(* Policy resolution: buildPreamble (utils.go) and the capability          *)
(* registry (extras/extra.go).                                             *)

NL == [kind |-> "nl"]

\* stdlib.AllModuleNames() of tengo v2, as read at utils.go:23.
StdModuleNames ==
    {<<"math">>, <<"os">>, <<"text">>, <<"times">>, <<"rand">>,
     <<"fmt">>, <<"json">>, <<"base64">>, <<"hex">>, <<"enum">>}

ExtraModules == {<<"log">>, <<"req">>, <<"html">>, <<"anko">>}

AllExtraModuleNames == ExtraModules

ToSet(items) == Range(items)

HasPrefixFn(imp) == Len(imp) > 0 /\ imp[1] = "fn:"

TrimPrefixFn(imp) == IF HasPrefixFn(imp) THEN Tail(imp) ELSE imp

ReplaceAllDots(key) == [i \in 1..Len(key) |-> IF key[i] = "." THEN "_" ELSE key[i]]

GlobalName(key) == <<"fn_">> \o ReplaceAllDots(key)

BindStmt(name, literal) == [kind |-> "bind", name |-> name, literal |-> literal]

ImportStmt(name) == [kind |-> "import", name |-> name]

LogRec(level, msg, arg) == [level |-> level, msg |-> msg, arg |-> arg]

\* buildPreamble with the recognized-name test placed before the deny test.
PreambleStepAllowFirst(acc, imp, functions, denySet) ==
    IF HasPrefixFn(imp)
    THEN LET key == TrimPrefixFn(imp)
         IN  IF ~ Has(functions, key)
             THEN [acc EXCEPT !.log = Append(@, LogRec("ERROR", "Function not found", key))]
             ELSE [acc EXCEPT !.preamble =
                       @ \o <<NL, BindStmt(GlobalName(key), functions[key])>>]
    ELSE IF imp \in StdModuleNames \/ imp \in AllExtraModuleNames
         THEN [acc EXCEPT !.allowed = Append(@, imp),
                          !.preamble = @ \o <<ImportStmt(imp), NL>>]
         ELSE IF imp \in denySet
              THEN [acc EXCEPT !.log = Append(@, LogRec("WARN", "Import denied", imp))]
              ELSE [acc EXCEPT !.log =
                        Append(@, LogRec("WARN", "Unrecognized standard import", imp))]

\* One iteration of the loop of buildPreamble over rule.Imports: acc is
\* (preamble, allowedModules, log records) so far.
PreambleStep(acc, imp, functions, denySet) ==
    IF HasPrefixFn(imp)
    THEN LET key == TrimPrefixFn(imp)
         IN  IF ~ Has(functions, key)
             THEN [acc EXCEPT !.log = Append(@, LogRec("ERROR", "Function not found", key))]
             ELSE [acc EXCEPT !.preamble =
                       @ \o <<NL, BindStmt(GlobalName(key), functions[key])>>]
    ELSE IF imp \in denySet
         THEN [acc EXCEPT !.log = Append(@, LogRec("WARN", "Import denied", imp))]
         ELSE IF imp \in StdModuleNames \/ imp \in AllExtraModuleNames
              THEN [acc EXCEPT !.allowed = Append(@, imp),
                               !.preamble = @ \o <<ImportStmt(imp), NL>>]
              ELSE [acc EXCEPT !.log =
                        Append(@, LogRec("WARN", "Unrecognized standard import", imp))]

RECURSIVE PreambleLoop(_, _, _, _)
PreambleLoop(acc, imports, functions, denySet) ==
    IF imports = <<>> THEN acc
    ELSE PreambleLoop(PreambleStep(acc, Head(imports), functions, denySet),
                      Tail(imports), functions, denySet)

\* The locals of buildPreamble as a call finds them, but for the builder
\* and the slice of names being kept from the call before.
LocalsKept ==
    IF polOut.done
    THEN [preamble |-> polOut.preamble, allowed |-> polOut.allowed, log |-> <<>>]
    ELSE [preamble |-> <<>>, allowed |-> <<>>, log |-> <<>>]

\* utils.go:20-21: the builder and the slice of names are locals, empty at
\* every call; the log records of the call are collected with them.
Locals == [preamble |-> <<>>, allowed |-> <<>>, log |-> <<>>]

buildPreamble(rule, functions, denyList) ==
    PreambleLoop(Locals, rule.Imports, functions, ToSet(denyList))

\* stdlib.GetModuleMap(names...) plus the declared extra modules: the modules
\* a script compiled with this map can import.
GetCustomModuleMap(allowedModules) ==
    {m \in Range(allowedModules) : m \in StdModuleNames}
        \cup {m \in Range(allowedModules) : m \in AllExtraModuleNames}

-----------------------------------------------------------------------------
(* A specification that applies buildPreamble to bounded inputs.           *)

MaxImports == 3

FnLit   == [src |-> "func(x){return x}", nl |-> FALSE]
FnLitNL == [src |-> "func(a,b){return a}", nl |-> TRUE]

FunctionTables ==
    { (<<"parse", ".", "date">> :> FnLit),
      (<<"parse", ".", "date">> :> FnLit) @@ (<<"sort">> :> FnLitNL) }

ImportPool ==
    { <<"os">>, <<"req">>, <<"bogus">>,
      <<"fn:", "parse", ".", "date">>, <<"fn:", "sort">> }

DenyLists == { <<>>, <<<<"os">>>>, <<<<"req">>, <<"os">>>> }

NoOut == [done |-> FALSE]

PolInit ==
    /\ polIn \in [imports : SeqsUpTo(ImportPool, MaxImports),
                  functions : FunctionTables,
                  deny : DenyLists]
    /\ polOut = NoOut

Resolved(r) ==
    [done |-> TRUE, preamble |-> r.preamble, allowed |-> r.allowed, log |-> r.log,
     second |-> NoOut]

Resolve ==
    /\ ~ polOut.done
    /\ polOut' = Resolved(buildPreamble([Imports |-> polIn.imports], polIn.functions, polIn.deny))
    /\ UNCHANGED polIn

ResolvedAgain(r) ==
    [polOut EXCEPT !.second = [done |-> TRUE, preamble |-> r.preamble,
                               allowed |-> r.allowed, log |-> r.log]]

\* The same rule is resolved a second time with the same table and list.
ResolveAgain ==
    /\ polOut.done /\ ~ polOut.second.done
    /\ polOut' = ResolvedAgain(buildPreamble([Imports |-> polIn.imports], polIn.functions, polIn.deny))
    /\ UNCHANGED polIn

-----------------------------------------------------------------------------
(* Go values (the `any` of the code) and tengo objects, as tagged records. *)

GoInt(n)    == [t |-> "int", n |-> n]
GoFloat(x)  == [t |-> "float64", n |-> x]
GoString(x) == [t |-> "string", s |-> x]
GoSlice(xs) == [t |-> "[]any", items |-> xs]
GoMap(m)    == [t |-> "map[string]any", m |-> m]
GoNil       == [t |-> "nil"]
GoBool(b)   == [t |-> "bool", b |-> b]

TInt(n)          == [o |-> "Int", n |-> n]
TFloat(x)        == [o |-> "Float", n |-> x]
TString(x)       == [o |-> "String", s |-> x]
TArray(xs)       == [o |-> "Array", items |-> xs]
TMap(m)          == [o |-> "Map", m |-> m]
TImmutableMap(m) == [o |-> "ImmutableMap", m |-> m]
Undefined        == [o |-> "Undefined"]
TBool(b)         == [o |-> "Bool", b |-> b]

\* toTengoObject (utils.go): maps become ImmutableMap, slices become the
\* mutable Array.
RECURSIVE toTengoObject(_)
toTengoObject(v) ==
    CASE v.t = "string"         -> TString(v.s)
      [] v.t = "bool"           -> TBool(v.b)
      [] v.t = "int"            -> TInt(v.n)
      [] v.t = "float64"        -> TFloat(v.n)
      [] v.t = "[]any"          -> TArray([i \in 1..Len(v.items) |-> toTengoObject(v.items[i])])
      [] v.t = "map[string]any" -> TImmutableMap([k \in DOMAIN v.m |-> toTengoObject(v.m[k])])
      [] OTHER                  -> TString("<nil>")

\* createEnvVariable (utils.go): ranging over a nil map yields nothing.
createEnvVariable(envData) ==
    TImmutableMap([k \in DOMAIN envData.m |-> toTengoObject(envData.m[k])])

\* tengo.ToInterface, which Variable.Array and Variable.Map apply to elements.
RECURSIVE ToInterface(_)
ToInterface(obj) ==
    CASE obj.o = "Int"          -> GoInt(obj.n)
      [] obj.o = "Bool"         -> GoBool(obj.b)
      [] obj.o = "Float"        -> GoFloat(obj.n)
      [] obj.o = "String"       -> GoString(obj.s)
      [] obj.o = "Array"        -> GoSlice([i \in 1..Len(obj.items) |-> ToInterface(obj.items[i])])
      [] obj.o = "Map"          -> GoMap([k \in DOMAIN obj.m |-> ToInterface(obj.m[k])])
      [] obj.o = "ImmutableMap" -> GoMap([k \in DOMAIN obj.m |-> ToInterface(obj.m[k])])
      [] OTHER                  -> GoNil

\* The order fmt prints map keys in (sorted), over the keys the inputs use.
KeyOrder == <<"page", "q">>

\* %#v of a scalar: an int and a float64 of integral value print the same
\* digits; a string prints quoted.
GoSyntax(v) ==
    CASE v.t = "int"     -> [digits |-> v.n]
      [] v.t = "float64" -> [digits |-> v.n]
      [] v.t = "string"  -> [quoted |-> v.s]
      [] OTHER           -> [other |-> v.t]

\* serializeEnv (utils.go): fmt.Sprintf("%#v", envVars), the entries of the
\* map in sorted key order.
serializeEnv(envVars) ==
    LET keys == SelectSeq(KeyOrder, LAMBDA k : k \in DOMAIN envVars)
    IN  [i \in 1..Len(keys) |-> [key |-> keys[i], val |-> GoSyntax(envVars[keys[i]])]]

-----------------------------------------------------------------------------
(* The script engine (tengo), at the interface the engine uses: program    *)
(* text is compiled against a module map and the added globals; a compiled *)
(* program keeps its globals from one Run to the next.                     *)

BodyTok(code) == [kind |-> "body", code |-> code]

\* Statements are separated by a line break; a snippet literal that itself
\* ends in a line break separates too.
RECURSIVE WellFormed(_, _)
WellFormed(text, needSep) ==
    IF text = <<>> THEN TRUE
    ELSE LET tok == Head(text)
         IN  IF tok.kind = "nl" THEN WellFormed(Tail(text), FALSE)
             ELSE /\ ~ needSep
                  /\ WellFormed(Tail(text),
                                IF tok.kind = "bind" THEN ~ tok.literal.nl ELSE TRUE)

Declarations(text) ==
    SelectSeq(text, LAMBDA tok : tok.kind \in {"bind", "import"})

NoRedeclaration(text) ==
    LET d == Declarations(text)
    IN  \A i, j \in 1..Len(d) : i # j => d[i].name # d[j].name

\* Names bound by script.Add at anko.go:124-126.
AddedGlobals == {<<"env">>, <<"url_encode">>, <<"to_title_case">>}

CompileOK(text, modules) ==
    LET d == Declarations(text)
        body == text[Len(text)].code
    IN  /\ WellFormed(text, FALSE)
        /\ NoRedeclaration(text)
        /\ \A i \in 1..Len(d) : d[i].kind = "import" => d[i].name \in modules
        /\ body.refs \subseteq ({d[i].name : i \in 1..Len(d)} \cup AddedGlobals)

NoProg == [nil |-> TRUE]

\* script.Compile: the program with its globals as bound before compilation.
\* The field by tells apart the programs of concurrent invocations, which are
\* distinct objects even when their contents agree.
Compiled(ruleName, code, envObj, modules) ==
    [nil |-> FALSE, rule |-> ruleName, code |-> code, env |-> envObj,
     modules |-> modules, result |-> Undefined, by |-> 0]

\* Compiled.Run with outcome oc: globals written before the run ended keep
\* their new value, the others keep the value of the previous run.
Run(prog, oc) == [prog EXCEPT !.result = IF oc.assigns THEN oc.value ELSE @]

\* Compiled.Get: a Variable is returned for every name; its value is
\* Undefined when the global was never written (tengo v2 script.go).
Get(prog) == [isNil |-> FALSE, value |-> prog.result]

\* Variable.Array: the elements of an Array, nil for any other value.
VarArray(var) ==
    IF var.value.o = "Array"
    THEN [i \in 1..Len(var.value.items) |-> ToInterface(var.value.items[i])]
    ELSE <<>>

\* Variable.Map: the entries of a Map, nil for any other value.
VarMap(var) ==
    IF var.value.o = "Map"
    THEN [k \in DOMAIN var.value.m |-> ToInterface(var.value.m[k])]
    ELSE EmptyMap

-----------------------------------------------------------------------------
(* Errors and the per-category validation of the result (anko.go).         *)

NoErr == [kind |-> "none"]

ErrRuleNotFound    == [kind |-> "RuleNotFound"]
ErrCompile         == [kind |-> "CompileError"]
ErrRuntime         == [kind |-> "RuntimeError"]
ErrMissingResult   == [kind |-> "MissingResult"]
ErrItemNotMap(i)   == [kind |-> "ItemNotMap", index |-> i]
ErrItemKey(i, key) == [kind |-> "MissingKey", index |-> i, key |-> key]
ErrKey(key)        == [kind |-> "MissingKey", key |-> key]
ErrGenres          == [kind |-> "GenresNotArray"]

Ret(out, err) == [out |-> out, err |-> err]

Nil == [nil |-> TRUE]

IsGoMap(item) == item.t = "map[string]any"

\* The first required key that m lacks, in the order of `required`.
RECURSIVE FirstMissing(_, _)
FirstMissing(m, required) ==
    IF required = <<>> THEN <<>>
    ELSE IF Head(required) \notin DOMAIN m THEN <<Head(required)>>
         ELSE FirstMissing(m, Tail(required))

\* The first loop of SearchRule / ChapterListRule from item i (1-based here,
\* reported 0-based as the code's range index).
RECURSIVE CheckItems(_, _, _)
CheckItems(arr, i, required) ==
    IF i > Len(arr) THEN NoErr
    ELSE IF ~ IsGoMap(arr[i]) THEN ErrItemNotMap(i - 1)
         ELSE LET miss == FirstMissing(arr[i].m, required)
              IN  IF miss # <<>> THEN ErrItemKey(i - 1, miss[1])
                  ELSE CheckItems(arr, i + 1, required)

\* The second loop: the map items, in order.
KeepMaps(arr) == SelectSeq(arr, IsGoMap)

SearchValidate(resultVar) ==
    LET arr == VarArray(resultVar)
        e   == CheckItems(arr, 1, <<"title", "url">>)
    IN  IF e # NoErr THEN Ret(Nil, e) ELSE Ret(GoSlice(KeepMaps(arr)), NoErr)

ChapterListValidate(resultVar) ==
    LET arr == VarArray(resultVar)
        e   == CheckItems(arr, 1, <<"title", "url">>)
    IN  IF e # NoErr THEN Ret(Nil, e) ELSE Ret(GoSlice(KeepMaps(arr)), NoErr)

\* The loop of NovelInfoRule without the test of the shape of genres.
CheckInfoKeysOnly(info, required) ==
    IF \E i \in 1..Len(required) : required[i] \notin DOMAIN info
    THEN ErrKey(required[CHOOSE i \in 1..Len(required) :
                            /\ required[i] \notin DOMAIN info
                            /\ \A j \in 1..(i - 1) : required[j] \in DOMAIN info])
    ELSE NoErr

\* The loop of NovelInfoRule over its required keys.
RECURSIVE CheckInfo(_, _)
CheckInfo(info, required) ==
    IF required = <<>> THEN NoErr
    ELSE LET key == Head(required)
         IN  IF key \notin DOMAIN info THEN ErrKey(key)
             ELSE IF key = "genres" /\ info[key].t # "[]any" THEN ErrGenres
                  ELSE CheckInfo(info, Tail(required))

NovelInfoValidate(resultVar) ==
    LET info == VarMap(resultVar)
        e    == CheckInfo(info, <<"title", "cover", "author", "description",
                                  "status", "genres">>)
    IN  IF e # NoErr THEN Ret(Nil, e) ELSE Ret(GoMap(info), NoErr)

\* The loop of ContentRule with title as the only required key.
ContentValidateTitleOnly(resultVar) ==
    IF "title" \notin DOMAIN VarMap(resultVar) THEN Ret(Nil, ErrKey("title"))
    ELSE Ret(GoMap(VarMap(resultVar)), NoErr)

ContentValidate(resultVar) ==
    LET content == VarMap(resultVar)
        miss    == FirstMissing(content, <<"title", "content">>)
    IN  IF miss # <<>> THEN Ret(Nil, ErrKey(miss[1])) ELSE Ret(GoMap(content), NoErr)

-----------------------------------------------------------------------------
(* The engine (anko.go).  An engine value E is the record of the Engine's  *)
(* fields; each operator below is one method, or one block of a method,    *)
(* as a function from the engine before to the engine after.               *)

Eng == [Rules |-> Rules, Functions |-> Functions, Env |-> Env,
        compiledCache |-> compiledCache, lastInputs |-> lastInputs,
        denyLibs |-> denyLibs, CacheEnabled |-> CacheEnabled]

\* NewEngine followed by LoadFile of a bundle without an env section.
NewEngine(rules, functions) ==
    [Rules |-> rules, Functions |-> functions,
     Env |-> [isNil |-> TRUE, m |-> EmptyMap],
     compiledCache |-> EmptyMap, lastInputs |-> EmptyMap,
     denyLibs |-> <<>>, CacheEnabled |-> TRUE]

SetDenyLibsCall(E, deny) == [E EXCEPT !.denyLibs = deny]

EnableCacheCall(E) == [E EXCEPT !.CacheEnabled = TRUE]

DisableCacheCall(E) ==
    [E EXCEPT !.CacheEnabled = FALSE, !.compiledCache = EmptyMap, !.lastInputs = EmptyMap]

AddEnvVarCallFresh(E, key, value) ==
    [E EXCEPT !.Env = [isNil |-> FALSE, m |-> MapSet(EmptyMap, key, value)]]

AddEnvVarCall(E, key, value) ==
    [E EXCEPT !.Env = [isNil |-> FALSE, m |-> MapSet(E.Env.m, key, value)]]

\* anko.go:105-106, the cache lookup of RunRule.
CacheHit(E, ruleName) == E.CacheEnabled /\ Has(E.compiledCache, ruleName)

\* anko.go:118-119, the program text of a rule.
FinalCode(E, ruleName) ==
    LET rule == E.Rules[ruleName]
        pre  == buildPreamble(rule, E.Functions, E.denyLibs)
    IN  pre.preamble \o <<NL>> \o <<BodyTok(rule.Code)>>

\* anko.go:123, the module map the rule is compiled against.
RuleModules(E, ruleName) ==
    GetCustomModuleMap(buildPreamble(E.Rules[ruleName], E.Functions, E.denyLibs).allowed)

\* anko.go:122-128, script.Compile succeeds.
Compiles(E, ruleName) == CompileOK(FinalCode(E, ruleName), RuleModules(E, ruleName))

\* anko.go:122-128, the compiled program, with env bound to the engine's
\* environment as it is now.
CompileRule(E, ruleName) ==
    Compiled(ruleName, E.Rules[ruleName].Code, createEnvVariable(E.Env),
             RuleModules(E, ruleName))

\* anko.go:133-135 without the test of CacheEnabled.
StoreCompiledAlways(E, ruleName, prog) ==
    [E EXCEPT !.compiledCache = MapSet(@, ruleName, prog)]

\* anko.go:133-135.
StoreCompiled(E, ruleName, prog) ==
    IF E.CacheEnabled
    THEN [E EXCEPT !.compiledCache = MapSet(@, ruleName, prog)]
    ELSE E

\* The cached program is the object that ran: a Run through the returned or
\* the cached pointer updates the cache entry too.
UpdateCached(E, ruleName, before, after) ==
    IF Has(E.compiledCache, ruleName) /\ E.compiledCache[ruleName] = before
    THEN [E EXCEPT !.compiledCache = MapSet(@, ruleName, after)]
    ELSE E

NoRun == [assigns |-> FALSE, value |-> Undefined, err |-> FALSE]

\* The outcomes the run of an invocation of ruleName can have.
Outcomes(E, ruleName) ==
    IF CacheHit(E, ruleName) THEN E.compiledCache[ruleName].code.outcomes
    ELSE IF Has(E.Rules, ruleName) /\ Compiles(E, ruleName)
         THEN E.Rules[ruleName].Code.outcomes
         ELSE {NoRun}

\* What RunRule returns (prog, err) and, for the record, what it did: whether
\* it took the cached program, how often it called Compile, the program it
\* ran as it was before and after the run, and whether that run failed.
RunRet(E, prog, err, hit, compiles, ranProg, ranAfter, runFailed) ==
    [E |-> E, prog |-> prog, err |-> err, hit |-> hit, compiles |-> compiles,
     ran |-> ~ ranProg.nil, ranProg |-> ranProg, ranAfter |-> ranAfter,
     runFailed |-> runFailed]

\* anko.go:106-109 with env bound again, to the engine's environment as it
\* is at the hit, before the cached program runs.
RunCachedRebound(E, ruleName, cached, after, oc) ==
    RunRet(UpdateCached(E, ruleName, cached, [after EXCEPT !.env = createEnvVariable(E.Env)]),
           [after EXCEPT !.env = createEnvVariable(E.Env)], NoErr,
           TRUE, 0, [cached EXCEPT !.env = createEnvVariable(E.Env)],
           [after EXCEPT !.env = createEnvVariable(E.Env)], oc.err)

\* anko.go:106-109: the cached program runs; its error is dropped.
RunCached(E, ruleName, cached, after, oc) ==
    RunRet(UpdateCached(E, ruleName, cached, after), after, NoErr,
           TRUE, 0, cached, after, oc.err)

\* anko.go:137-142: the fresh program runs.
RunCompiled(E, ruleName, compiled, after, oc) ==
    IF oc.err
    THEN RunRet(UpdateCached(E, ruleName, compiled, after), NoProg, ErrRuntime,
                FALSE, 1, compiled, after, TRUE)
    ELSE RunRet(UpdateCached(E, ruleName, compiled, after), after, NoErr,
                FALSE, 1, compiled, after, FALSE)

\* anko.go:133-142.
RunFresh(E, ruleName, compiled, oc) ==
    RunCompiled(StoreCompiled(E, ruleName, compiled), ruleName, compiled,
                Run(compiled, oc), oc)

\* Engine.RunRule compiling before it looks the rule up: an absent rule is
\* reported as a failed compilation.
RunRuleCompileFirst(E, ruleName, oc) ==
    IF CacheHit(E, ruleName)
    THEN RunCached(E, ruleName, E.compiledCache[ruleName],
                   Run(E.compiledCache[ruleName], oc), oc)
    ELSE IF ~ Has(E.Rules, ruleName) \/ ~ Compiles(E, ruleName)
    THEN RunRet(E, NoProg, ErrCompile, FALSE, 1, NoProg, NoProg, FALSE)
    ELSE RunFresh(E, ruleName, CompileRule(E, ruleName), oc)

\* Engine.RunRule (anko.go:104-143) with the run ending as oc says.
RunRuleCall(E, ruleName, oc) ==
    IF CacheHit(E, ruleName)
    THEN RunCached(E, ruleName, E.compiledCache[ruleName],
                   Run(E.compiledCache[ruleName], oc), oc)
    ELSE IF ~ Has(E.Rules, ruleName)
    THEN RunRet(E, NoProg, ErrRuleNotFound, FALSE, 0, NoProg, NoProg, FALSE)
    ELSE IF ~ Compiles(E, ruleName)
    THEN RunRet(E, NoProg, ErrCompile, FALSE, 1, NoProg, NoProg, FALSE)
    ELSE RunFresh(E, ruleName, CompileRule(E, ruleName), oc)

\* anko.go:151-156.
GetResult(r, resultVar) ==
    IF resultVar.isNil
    THEN [r |-> r, var |-> Nil, err |-> ErrMissingResult]
    ELSE [r |-> r, var |-> resultVar, err |-> NoErr]

\* anko.go:147-156, given what RunRule returned.
AfterRunRule(r) ==
    IF r.err # NoErr THEN [r |-> r, var |-> Nil, err |-> r.err]
    ELSE GetResult(r, Get(r.prog))

\* Engine.RunRuleAndGetResult (anko.go:146-157).
RunRuleAndGetResultCall(E, ruleName, oc) == AfterRunRule(RunRuleCall(E, ruleName, oc))

\* anko.go:166-169 evicting whether or not the fingerprint changed.
InvalidateAlways(E, ruleName, key) ==
    [E EXCEPT !.compiledCache = MapDelete(@, ruleName),
              !.lastInputs = MapSet(@, ruleName, key)]

\* anko.go:166-169 recording the new fingerprint without evicting.
InvalidateNoEvict(E, ruleName, key) ==
    [E EXCEPT !.lastInputs = MapSet(@, ruleName, key)]

\* anko.go:166-169 dropping every compiled program, not only the rule's own.
InvalidateFlush(E, ruleName, key) ==
    IF ~ Has(E.lastInputs, ruleName) \/ E.lastInputs[ruleName] # key
    THEN [E EXCEPT !.compiledCache = EmptyMap,
                   !.lastInputs = MapSet(@, ruleName, key)]
    ELSE E

\* anko.go:166-169 (and the same block of the other three entry points).
Invalidate(E, ruleName, key) ==
    IF ~ Has(E.lastInputs, ruleName) \/ E.lastInputs[ruleName] # key
    THEN [E EXCEPT !.compiledCache = MapDelete(@, ruleName),
                   !.lastInputs = MapSet(@, ruleName, key)]
    ELSE E

\* anko.go:164-170.
Fingerprint(E, ruleName, envVars) ==
    IF E.CacheEnabled THEN Invalidate(E, ruleName, serializeEnv(envVars)) ELSE E

\* anko.go:164-171: the engine as RunRuleAndGetResult finds it.
Prepare(E, ruleName, envKey, envVars) ==
    AddEnvVarCall(Fingerprint(E, ruleName, envVars), envKey, GoMap(envVars))

\* The validation each entry point applies to the result variable.
ValidateAs(category, resultVar) ==
    CASE category = "search"       -> SearchValidate(resultVar)
      [] category = "info"         -> NovelInfoValidate(resultVar)
      [] category = "chapter-list" -> ChapterListValidate(resultVar)
      [] category = "content"      -> ContentValidate(resultVar)

\* anko.go:173-175 and the validation that follows.
CategoryRet(g, ruleName) ==
    IF g.err # NoErr THEN [r |-> g.r, ret |-> Ret(Nil, g.err)]
    ELSE [r |-> g.r, ret |-> ValidateAs(ruleName, g.var)]

\* The body of a category entry point after Prepare.
Category(E, ruleName, oc) ==
    CategoryRet(RunRuleAndGetResultCall(E, ruleName, oc), ruleName)

SearchRuleCall(E, oc)      == Category(E, "search", oc)
NovelInfoRuleCall(E, oc)   == Category(E, "info", oc)
ChapterListRuleCall(E, oc) == Category(E, "chapter-list", oc)
ContentRuleCall(E, oc)     == Category(E, "content", oc)

-----------------------------------------------------------------------------
(* The bundles, inputs and environment values the engine is explored with. *)

OkAssign(v)  == [assigns |-> TRUE, value |-> v, err |-> FALSE]
OkNoAssign   == [assigns |-> FALSE, value |-> Undefined, err |-> FALSE]
ErrAssign(v) == [assigns |-> TRUE, value |-> v, err |-> TRUE]
ErrNoAssign  == [assigns |-> FALSE, value |-> Undefined, err |-> TRUE]

ItemOK      == TMap([title |-> TString("A"), url |-> TString("u1")])
ListGood    == TArray(<<ItemOK>>)
ListMixed   == TArray(<<ItemOK, TInt(42)>>)
ContentGood == TMap([title |-> TString("T"), content |-> TString("C")])
ContentNoBody == TMap([title |-> TString("T")])
InfoGood    == TMap([title |-> TString("T"), cover |-> TString("c"),
                     author |-> TString("a"), description |-> TString("d"),
                     status |-> TString("s"), genres |-> TArray(<<TString("g")>>)])

RuleOf(imports, refs, outcomes) ==
    [Imports |-> imports, Code |-> [refs |-> refs, outcomes |-> outcomes]]

BundleFunctions == (<<"sort">> :> FnLit)

\* Every category has a rule; the search rule fetches over HTTP, so its run
\* may fail after result was written; the content rule may leave content
\* out of its record.
BundleA ==
    [r \in {"search", "info", "chapter-list", "content"} |->
        CASE r = "search" ->
                 RuleOf(<<<<"req">>>>, {<<"req">>, <<"env">>},
                        {OkAssign(ListGood), ErrAssign(ListGood)})
          [] r = "info" ->
                 RuleOf(<<>>, {<<"env">>}, {OkNoAssign})
          [] r = "chapter-list" ->
                 RuleOf(<<<<"anko">>, <<"fn:", "sort">>>>,
                        {<<"anko">>, <<"fn_", "sort">>, <<"env">>},
                        {OkAssign(ListMixed)})
          [] r = "content" ->
                 RuleOf(<<>>, {<<"env">>, <<"to_title_case">>},
                        {OkAssign(ContentGood), OkAssign(ContentNoBody)})]

\* No content rule; the search rule never writes result; the chapter-list
\* rule may fail before it writes result.
BundleB ==
    [r \in {"search", "info", "chapter-list"} |->
        CASE r = "search" ->
                 RuleOf(<<>>, {<<"env">>}, {OkNoAssign})
          [] r = "info" ->
                 RuleOf(<<<<"req">>>>, {<<"req">>}, {OkAssign(InfoGood)})
          [] r = "chapter-list" ->
                 RuleOf(<<<<"req">>>>, {<<"req">>},
                        {OkAssign(ListGood), ErrNoAssign})]

Bundles == {BundleA, BundleB}

RuleIDs == {"search", "content", "custom"}

In1  == [page |-> GoInt(1)]
In1f == [page |-> GoFloat(1)]
In2  == [page |-> GoInt(1), q |-> GoString("a")]

Inputs == {In1, In1f, In2}

EnvKeys == {"k", "search"}

EnvValues == {GoString("v"), GoMap(In2)}

DenySettings == {<<>>, <<<<"req">>>>}

MaxOps == 3

-----------------------------------------------------------------------------
(* The sequential specification: any sequence of at most MaxOps public     *)
(* operations on one engine.                                               *)

Obs(op, rule, inputs, r, ret) ==
    [op |-> op, rule |-> rule, inputs |-> inputs, hit |-> r.hit,
     compiles |-> r.compiles, ran |-> r.ran, ranProg |-> r.ranProg,
     ranAfter |-> r.ranAfter, runFailed |-> r.runFailed,
     out |-> ret.out, err |-> ret.err]

NoRunRet == [hit |-> FALSE, compiles |-> 0, ran |-> FALSE, ranProg |-> NoProg,
             ranAfter |-> NoProg, runFailed |-> FALSE]

AdminObs(op) == Obs(op, "", EmptyMap, NoRunRet, Ret(Nil, NoErr))

SetEngine(E) ==
    /\ Rules' = E.Rules
    /\ Functions' = E.Functions
    /\ Env' = E.Env
    /\ compiledCache' = E.compiledCache
    /\ lastInputs' = E.lastInputs
    /\ denyLibs' = E.denyLibs
    /\ CacheEnabled' = E.CacheEnabled

Step(E, obs) ==
    /\ nOps < MaxOps
    /\ nOps' = nOps + 1
    /\ SetEngine(E)
    /\ last' = obs
    /\ prev' = last
    /\ UNCHANGED <<polVars, valVars, concVars, reqVars, logVars, bindVars>>

\* The part of a state that a specification does not use.
PolIdle == polIn = [imports |-> <<>>, functions |-> BundleFunctions, deny |-> <<>>]
               /\ polOut = NoOut

ValIdle == valIn = [category |-> "search", value |-> Undefined] /\ valOut = NoOut

ConcIdle == procs = EmptyMap /\ crashed = FALSE

ReqIdle == http = [pc |-> "idle"]

LogIdle == logCall = [pc |-> "idle"]

BindIdle == bound = [pc |-> "idle"]

ObsIdle == last = AdminObs("NewEngine") /\ prev = AdminObs("NewEngine") /\ nOps = 0

EngineIdle ==
    /\ Rules = BundleA /\ Functions = BundleFunctions
    /\ Env = [isNil |-> TRUE, m |-> EmptyMap]
    /\ compiledCache = EmptyMap /\ lastInputs = EmptyMap
    /\ denyLibs = <<>> /\ CacheEnabled = TRUE
    /\ ObsIdle

Init ==
    /\ \E rules \in Bundles :
          LET E == NewEngine(rules, BundleFunctions)
          IN  /\ Rules = E.Rules
              /\ Functions = E.Functions
              /\ Env = E.Env
              /\ compiledCache = E.compiledCache
              /\ lastInputs = E.lastInputs
              /\ denyLibs = E.denyLibs
              /\ CacheEnabled = E.CacheEnabled
    /\ last = AdminObs("NewEngine")
    /\ prev = AdminObs("NewEngine")
    /\ nOps = 0
    /\ PolIdle
    /\ ValIdle
    /\ ConcIdle
    /\ ReqIdle
    /\ LogIdle /\ BindIdle

RunRuleDone(ruleName, r) ==
    Step(r.E, Obs("RunRule", ruleName, EmptyMap, r, Ret(r.prog, r.err)))

RunRule ==
    \E ruleName \in RuleIDs : \E oc \in Outcomes(Eng, ruleName) :
        RunRuleDone(ruleName, RunRuleCall(Eng, ruleName, oc))

RunRuleAndGetResultDone(ruleName, g) ==
    Step(g.r.E, Obs("RunRuleAndGetResult", ruleName, EmptyMap, g.r, Ret(g.var, g.err)))

RunRuleAndGetResult ==
    \E ruleName \in RuleIDs : \E oc \in Outcomes(Eng, ruleName) :
        RunRuleAndGetResultDone(ruleName, RunRuleAndGetResultCall(Eng, ruleName, oc))

CategoryDone(op, ruleName, envVars, c) ==
    Step(c.r.E, Obs(op, ruleName, envVars, c.r, c.ret))

SearchRuleOn(E, envVars) ==
    \E oc \in Outcomes(E, "search") :
        CategoryDone("SearchRule", "search", envVars, SearchRuleCall(E, oc))

SearchRule ==
    \E envVars \in Inputs :
        SearchRuleOn(Prepare(Eng, "search", "search", envVars), envVars)

NovelInfoRuleOn(E, envVars) ==
    \E oc \in Outcomes(E, "info") :
        CategoryDone("NovelInfoRule", "info", envVars, NovelInfoRuleCall(E, oc))

NovelInfoRule ==
    \E envVars \in Inputs :
        NovelInfoRuleOn(Prepare(Eng, "info", "info", envVars), envVars)

ChapterListRuleOn(E, envVars) ==
    \E oc \in Outcomes(E, "chapter-list") :
        CategoryDone("ChapterListRule", "chapter-list", envVars, ChapterListRuleCall(E, oc))

ChapterListRule ==
    \E envVars \in Inputs :
        ChapterListRuleOn(Prepare(Eng, "chapter-list", "chapter_list", envVars), envVars)

ContentRuleOn(E, envVars) ==
    \E oc \in Outcomes(E, "content") :
        CategoryDone("ContentRule", "content", envVars, ContentRuleCall(E, oc))

ContentRule ==
    \E envVars \in Inputs :
        ContentRuleOn(Prepare(Eng, "content", "content", envVars), envVars)

AddEnvVar ==
    \E key \in EnvKeys, value \in EnvValues :
        Step(AddEnvVarCall(Eng, key, value), AdminObs("AddEnvVar"))

SetDenyLibs ==
    \E deny \in DenySettings :
        Step(SetDenyLibsCall(Eng, deny), AdminObs("SetDenyLibs"))

EnableCache == Step(EnableCacheCall(Eng), AdminObs("EnableCache"))

DisableCache == Step(DisableCacheCall(Eng), AdminObs("DisableCache"))

Next ==
    \/ RunRule
    \/ RunRuleAndGetResult
    \/ SearchRule
    \/ NovelInfoRule
    \/ ChapterListRule
    \/ ContentRule
    \/ AddEnvVar
    \/ SetDenyLibs
    \/ EnableCache
    \/ DisableCache

Spec == Init /\ [][Next]_vars

PolNext ==
    \/ Resolve /\ UNCHANGED <<engineVars, valVars, concVars, reqVars, logVars, bindVars>>
    \/ ResolveAgain /\ UNCHANGED <<engineVars, valVars, concVars, reqVars, logVars, bindVars>>

InitPolicy == PolInit /\ EngineIdle /\ ValIdle /\ ConcIdle /\ ReqIdle /\ LogIdle /\ BindIdle

SpecPolicy == InitPolicy /\ [][PolNext]_vars

-----------------------------------------------------------------------------
(* A specification that applies the four validations to bounded values of  *)
(* result.                                                                 *)

MaxItems == 2

ItemNoUrl == TMap([title |-> TString("A")])
ItemFoo   == TMap([foo |-> TString("bar")])

Items == {ItemOK, ItemNoUrl, ItemFoo, TInt(42)}

Restrict(m, K) == [k \in K |-> m[k]]

InfoMaps ==
    {Restrict(InfoGood.m, K) : K \in SUBSET DOMAIN InfoGood.m}
        \cup {[Restrict(InfoGood.m, K \cup {"genres"}) EXCEPT !["genres"] = TString("fantasy")] :
                 K \in SUBSET {"title", "status", "cover"} \cup {DOMAIN InfoGood.m}}

ResultPool ==
    {TArray(items) : items \in SeqsUpTo(Items, MaxItems)}
        \cup {TMap(m) : m \in InfoMaps}
        \cup {TMap(Restrict(ContentGood.m, K)) : K \in SUBSET DOMAIN ContentGood.m}
        \cup {Undefined, TString("x"), TImmutableMap(ContentGood.m)}

Categories == {"search", "info", "chapter-list", "content"}

ValInit ==
    /\ valIn \in [category : Categories, value : ResultPool]
    /\ valOut = NoOut

ValDone(ret) == valOut' = [done |-> TRUE, out |-> ret.out, err |-> ret.err]

Validate ==
    /\ ~ valOut.done
    /\ ValDone(ValidateAs(valIn.category, [isNil |-> FALSE, value |-> valIn.value]))
    /\ UNCHANGED <<valIn, engineVars, polVars, concVars, reqVars, logVars, bindVars>>

InitValidate == ValInit /\ EngineIdle /\ PolIdle /\ ConcIdle /\ ReqIdle /\ LogIdle /\ BindIdle

ValNext == Validate

SpecValidate == InitValidate /\ [][ValNext]_vars

-----------------------------------------------------------------------------
(* The concurrent specification: two goroutines call category entry points *)
(* on one engine.  The engine takes no lock, so the calls interleave       *)
(* between the statements that read or write the engine's fields; each     *)
(* action below is one such statement of anko.go.  Two goroutines about to *)
(* access the same Go map, one of them writing, are a data race: the       *)
(* runtime may abort the process (MapFault) or let the accesses happen in  *)
(* either order.                                                           *)

ProcIDs == {1, 2}

\* A third goroutine, which may call DisableCache meanwhile.
AdminID == 0

RuleOfCall(call) ==
    CASE call = "SearchRule"      -> "search"
      [] call = "NovelInfoRule"   -> "info"
      [] call = "ChapterListRule" -> "chapter-list"
      [] call = "ContentRule"     -> "content"

\* The environment key an entry point stores its inputs under
\* (anko.go:171, 212, 241, 280).
EnvKeyOf(ruleName) == IF ruleName = "chapter-list" THEN "chapter_list" ELSE ruleName

NewProc(call, envVars) ==
    [call |-> call, inputs |-> envVars, pc |-> "start", key |-> <<>>,
     prog |-> NoProg, ranProg |-> NoProg, err |-> NoErr, out |-> Nil]

InitConc ==
    /\ \E rules \in Bundles, deny \in DenySettings :
          /\ Rules = rules
          /\ Functions = BundleFunctions
          /\ Env = [isNil |-> TRUE, m |-> EmptyMap]
          /\ compiledCache = EmptyMap
          /\ lastInputs = EmptyMap
          /\ denyLibs = deny
          /\ CacheEnabled = TRUE
    /\ \E call \in {"SearchRule", "NovelInfoRule", "ChapterListRule", "ContentRule"} :
          \E in1 \in Inputs, in2 \in Inputs :
              \E admin \in {"off", "disable"} :
                  procs = [p \in ProcIDs \cup {AdminID} |->
                              IF p = AdminID THEN [pc |-> admin]
                              ELSE NewProc(call, IF p = 1 THEN in1 ELSE in2)]
    /\ crashed = FALSE
    /\ ObsIdle /\ PolIdle /\ ValIdle /\ ReqIdle /\ LogIdle /\ BindIdle

At(p, pc) == ~ crashed /\ procs[p].pc = pc

\* Goroutine p moves on with its locals as in me; the engine is E.
Move(p, me, E) ==
    /\ procs' = [procs EXCEPT ![p] = me]
    /\ SetEngine(E)
    /\ crashed' = crashed
    /\ UNCHANGED <<last, prev, nOps, polVars, valVars, reqVars, logVars, bindVars>>

Goto(me, pc) == [me EXCEPT !.pc = pc]

Fail(me, err) == [me EXCEPT !.pc = "done", !.err = err]

\* anko.go:164-165: the test of CacheEnabled and the fingerprint.
CStart(p) ==
    /\ At(p, "start")
    /\ Move(p, IF CacheEnabled
               THEN [procs[p] EXCEPT !.pc = "check", !.key = serializeEnv(procs[p].inputs)]
               ELSE Goto(procs[p], "addenv"),
            Eng)

\* anko.go:166: the comparison with the recorded fingerprint.
CCheck(p) ==
    /\ At(p, "check")
    /\ Move(p, IF \/ ~ Has(lastInputs, RuleOfCall(procs[p].call))
                  \/ lastInputs[RuleOfCall(procs[p].call)] # procs[p].key
               THEN Goto(procs[p], "evict")
               ELSE Goto(procs[p], "addenv"),
            Eng)

\* anko.go:167: delete(e.compiledCache, ruleName).
CEvict(p) ==
    /\ At(p, "evict")
    /\ Move(p, Goto(procs[p], "record"),
            [Eng EXCEPT !.compiledCache = MapDelete(@, RuleOfCall(procs[p].call))])

\* anko.go:168: e.lastInputs[ruleName] = key.
CRecord(p) ==
    /\ At(p, "record")
    /\ Move(p, Goto(procs[p], "addenv"),
            [Eng EXCEPT !.lastInputs = MapSet(@, RuleOfCall(procs[p].call), procs[p].key)])

\* anko.go:171: e.AddEnvVar(ruleName, envVars).
CAddEnv(p) ==
    /\ At(p, "addenv")
    /\ Move(p, Goto(procs[p], "lookup"),
            AddEnvVarCall(Eng, EnvKeyOf(RuleOfCall(procs[p].call)), GoMap(procs[p].inputs)))

\* anko.go:105-106: the lookup in the cache.
CLookup(p) ==
    /\ At(p, "lookup")
    /\ Move(p, IF CacheHit(Eng, RuleOfCall(procs[p].call))
               THEN [procs[p] EXCEPT !.pc = "runCached",
                                     !.prog = compiledCache[RuleOfCall(procs[p].call)]]
               ELSE Goto(procs[p], "find"),
            Eng)

\* anko.go:112-116: the lookup of the rule.
CFind(p) ==
    /\ At(p, "find")
    /\ Move(p, IF Has(Rules, RuleOfCall(procs[p].call))
               THEN Goto(procs[p], "compile")
               ELSE Fail(procs[p], ErrRuleNotFound),
            Eng)

\* anko.go:118-132: the program is built from the engine's fields as they
\* are now, and compiled.
CCompile(p) ==
    /\ At(p, "compile")
    /\ Move(p, IF Compiles(Eng, RuleOfCall(procs[p].call))
               THEN [procs[p] EXCEPT
                        !.pc = "store",
                        !.prog = [CompileRule(Eng, RuleOfCall(procs[p].call)) EXCEPT !.by = p]]
               ELSE Fail(procs[p], ErrCompile),
            Eng)

\* anko.go:133-135.
CStore(p) ==
    /\ At(p, "store")
    /\ Move(p, Goto(procs[p], "run"),
            StoreCompiled(Eng, RuleOfCall(procs[p].call), procs[p].prog))

\* Every holder of the program object that ran sees its globals as the run
\* left them: the cache entry, and the other goroutine's local pointer.
Ran(p, me, before, after) ==
    /\ procs' = [q \in DOMAIN procs |->
                    IF q = p THEN me
                    ELSE IF q = AdminID THEN procs[q]
                    ELSE IF ~ procs[q].prog.nil /\ procs[q].prog.by = before.by
                         THEN [procs[q] EXCEPT !.prog = after]
                         ELSE procs[q]]
    /\ compiledCache' =
           [r \in DOMAIN compiledCache |->
               IF compiledCache[r].by = before.by THEN after ELSE compiledCache[r]]
    /\ crashed' = crashed
    /\ UNCHANGED <<Rules, Functions, Env, lastInputs, denyLibs, CacheEnabled,
                   last, prev, nOps, polVars, valVars, reqVars, logVars, bindVars>>

\* anko.go:108-109: the cached program runs and its error is dropped.
CRunCached(p) ==
    /\ At(p, "runCached")
    /\ \E oc \in procs[p].prog.code.outcomes :
          Ran(p, [procs[p] EXCEPT !.pc = "validate", !.ranProg = procs[p].prog,
                                  !.prog = Run(procs[p].prog, oc)],
              procs[p].prog, Run(procs[p].prog, oc))

\* anko.go:137-142: the fresh program runs.
CRunFresh(p) ==
    /\ At(p, "run")
    /\ \E oc \in procs[p].prog.code.outcomes :
          Ran(p, IF oc.err
                 THEN [procs[p] EXCEPT !.pc = "done", !.err = ErrRuntime,
                                       !.ranProg = procs[p].prog, !.prog = NoProg]
                 ELSE [procs[p] EXCEPT !.pc = "validate", !.ranProg = procs[p].prog,
                                       !.prog = Run(procs[p].prog, oc)],
              procs[p].prog, Run(procs[p].prog, oc))

Returned(me, ret) == [me EXCEPT !.pc = "done", !.out = ret.out, !.err = ret.err]

\* anko.go:151-156 and the validation of the entry point.
CValidate(p) ==
    /\ At(p, "validate")
    /\ Move(p, Returned(procs[p],
                        IF Get(procs[p].prog).isNil THEN Ret(Nil, ErrMissingResult)
                        ELSE ValidateAs(RuleOfCall(procs[p].call), Get(procs[p].prog))),
            Eng)

\* anko.go:63: e.CacheEnabled = false.
CDisableFlag ==
    /\ At(AdminID, "disable")
    /\ Move(AdminID, [pc |-> "clearCache"], [Eng EXCEPT !.CacheEnabled = FALSE])

\* anko.go:64: e.compiledCache = make(...).
CDisableCache ==
    /\ At(AdminID, "clearCache")
    /\ Move(AdminID, [pc |-> "clearInputs"], [Eng EXCEPT !.compiledCache = EmptyMap])

\* anko.go:65: e.lastInputs = make(...).
CDisableInputs ==
    /\ At(AdminID, "clearInputs")
    /\ Move(AdminID, [pc |-> "disabled"], [Eng EXCEPT !.lastInputs = EmptyMap])

\* The Go map a goroutine at pc accesses next, and whether it writes it.
Access(pc) ==
    CASE pc = "check"   -> [map |-> "lastInputs", write |-> FALSE]
      [] pc = "evict"   -> [map |-> "compiledCache", write |-> TRUE]
      [] pc = "record"  -> [map |-> "lastInputs", write |-> TRUE]
      [] pc = "addenv"  -> [map |-> "Env", write |-> TRUE]
      [] pc = "lookup"  -> [map |-> "compiledCache", write |-> FALSE]
      [] pc = "compile" -> [map |-> "Env", write |-> FALSE]
      [] pc = "store"   -> [map |-> "compiledCache", write |-> TRUE]
      [] OTHER          -> [map |-> "none", write |-> FALSE]

Racing(p, q) ==
    /\ p # q
    /\ Access(procs[p].pc).map # "none"
    /\ Access(procs[p].pc).map = Access(procs[q].pc).map
    /\ Access(procs[p].pc).write

\* The runtime detects a concurrent map access and aborts the process.
MapFault ==
    /\ ~ crashed
    /\ \E p, q \in ProcIDs : Racing(p, q)
    /\ crashed' = TRUE
    /\ UNCHANGED <<procs, engineVars, polVars, valVars, reqVars, logVars, bindVars>>

NextConc ==
    \/ \E p \in ProcIDs : CStart(p)
    \/ \E p \in ProcIDs : CCheck(p)
    \/ \E p \in ProcIDs : CEvict(p)
    \/ \E p \in ProcIDs : CRecord(p)
    \/ \E p \in ProcIDs : CAddEnv(p)
    \/ \E p \in ProcIDs : CLookup(p)
    \/ \E p \in ProcIDs : CFind(p)
    \/ \E p \in ProcIDs : CCompile(p)
    \/ \E p \in ProcIDs : CStore(p)
    \/ \E p \in ProcIDs : CRunCached(p)
    \/ \E p \in ProcIDs : CRunFresh(p)
    \/ \E p \in ProcIDs : CValidate(p)
    \/ CDisableFlag
    \/ CDisableCache
    \/ CDisableInputs
    \/ MapFault

SpecConc == InitConc /\ [][NextConc]_vars

-----------------------------------------------------------------------------
(* The req module (utils.go, reqModule): get and post as a script calls    *)
(* them.  A call checks its arguments, then sends the request up to        *)
(* Attempts times; what the transport does with each attempt is not in the *)
(* module's hands.                                                         *)

Attempts == 2

MaxArgs == 3

ErrArgCount(fn)        == [kind |-> "ArgCount", fn |-> fn]
ErrArgType(fn, pos)    == [kind |-> "ArgType", fn |-> fn, pos |-> pos]
ErrTransport(fn, cause) == [kind |-> "Transport", fn |-> fn, cause |-> cause]

\* strings.Trim(v.String(), `"`): a string without its quotes, a number as
\* its digits.
HeaderText(v) ==
    CASE v.o = "String" -> [text |-> v.s]
      [] v.o = "Int"    -> [digits |-> v.n]
      [] OTHER          -> [other |-> v.o]

ToHeaders(hdrMap) == [k \in DOMAIN hdrMap.m |-> HeaderText(hdrMap.m[k])]

Parsed(err, url, body, headers) ==
    [err |-> err, url |-> url, body |-> body, headers |-> headers]

BadArgs(err) == Parsed(err, "", "", EmptyMap)

\* utils.go:281-290, reached with one argument only.
GetHeaders(args) ==
    IF Len(args) = 2
    THEN IF args[2].o # "Map" THEN BadArgs(ErrArgType("get", 2))
         ELSE Parsed(NoErr, args[1].s, "", ToHeaders(args[2]))
    ELSE Parsed(NoErr, args[1].s, "", EmptyMap)

\* utils.go:274-290.
GetArgs(args) ==
    IF Len(args) # 1 THEN BadArgs(ErrArgCount("get"))
    ELSE IF args[1].o # "String" THEN BadArgs(ErrArgType("get", 1))
         ELSE GetHeaders(args)

\* utils.go:326-335.
PostHeaders(args) ==
    IF Len(args) = 3
    THEN IF args[3].o # "Map" THEN BadArgs(ErrArgType("post", 3))
         ELSE Parsed(NoErr, args[1].s, args[2].s, ToHeaders(args[3]))
    ELSE Parsed(NoErr, args[1].s, args[2].s, EmptyMap)

\* utils.go:315-335.
PostArgs(args) ==
    IF Len(args) < 2 \/ Len(args) > 3 THEN BadArgs(ErrArgCount("post"))
    ELSE IF args[1].o # "String" THEN BadArgs(ErrArgType("post", 1))
         ELSE IF args[2].o # "String" THEN BadArgs(ErrArgType("post", 2))
              ELSE PostHeaders(args)

ParseArgs(fn, args) == IF fn = "get" THEN GetArgs(args) ELSE PostArgs(args)

\* What the transport does with attempt k: it fails, or a response arrives
\* (whatever its status).
TransportFail(k) == [ok |-> FALSE, cause |-> IF k = 1 THEN "e1" ELSE "e2",
                     status |-> 0, body |-> "", header |-> EmptyMap]

Response(k, status) == [ok |-> TRUE, cause |-> "", status |-> status,
                        body |-> IF k = 1 THEN "b1" ELSE "b2",
                        header |-> [server |-> <<"s">>]]

TransportOutcomes(k) == {TransportFail(k), Response(k, 200), Response(k, 500)}

NoResponse == [ok |-> FALSE, cause |-> "", status |-> 0, body |-> "", header |-> EmptyMap]

Request(q) == [method |-> q.fn, url |-> q.parsed.url, body |-> q.parsed.body,
               headers |-> q.parsed.headers]

HdrGood == TMap([x |-> TString("a")])

ReqArgPool == {TString("u"), TInt(7), HdrGood}

NewCall(fn, args) ==
    [fn |-> fn, args |-> args, pc |-> "call", i |-> 0, parsed |-> BadArgs(NoErr),
     sent |-> <<>>, got |-> <<>>, r |-> NoResponse, warns |-> 0,
     ret |-> Ret(Nil, NoErr)]

ReqInit ==
    \E fn \in {"get", "post"}, args \in SeqsUpTo(ReqArgPool, MaxArgs) :
        http = NewCall(fn, args)

\* The argument checks.
Checked(q, a) ==
    IF a.err # NoErr THEN [q EXCEPT !.pc = "done", !.ret = Ret(Nil, a.err)]
    ELSE [q EXCEPT !.pc = "attempt", !.parsed = a]

ReqCall ==
    /\ http.pc = "call"
    /\ http' = Checked(http, ParseArgs(http.fn, http.args))
    /\ UNCHANGED <<engineVars, polVars, valVars, concVars, logVars, bindVars>>

\* The loop body with the break left out: the request is sent again after a
\* response.
AfterAttemptNoBreak(q, t) ==
    [q EXCEPT !.sent = Append(@, Request(q)), !.got = Append(@, t), !.r = t,
              !.warns = IF t.ok THEN @ ELSE @ + 1,
              !.i = @ + 1,
              !.pc = IF q.i + 1 < Attempts THEN "attempt" ELSE "return"]

\* utils.go:293-300 (336-345 for post): one pass of the loop.  A failure is
\* logged and the loop goes on; a response ends it.
AfterAttempt(q, t) ==
    IF ~ t.ok
    THEN [q EXCEPT !.sent = Append(@, Request(q)), !.got = Append(@, t), !.r = t,
                   !.warns = @ + 1, !.i = @ + 1,
                   !.pc = IF q.i + 1 < Attempts THEN "attempt" ELSE "return"]
    ELSE [q EXCEPT !.sent = Append(@, Request(q)), !.got = Append(@, t), !.r = t,
                   !.pc = "return"]

ReqAttempt ==
    /\ http.pc = "attempt"
    /\ http.i < Attempts
    /\ \E t \in TransportOutcomes(http.i + 1) : http' = AfterAttempt(http, t)
    /\ UNCHANGED <<engineVars, polVars, valVars, concVars, logVars, bindVars>>

\* utils.go:369-375.
stringsToTengoArray(strs) == [i \in 1..Len(strs) |-> TString(strs[i])]

\* utils.go:361-367.
convertHeaders(hdr) == TMap([k \in DOMAIN hdr |-> TArray(stringsToTengoArray(hdr[k]))])

\* utils.go:304-309.
ResponseMap(r) ==
    TMap([status |-> TInt(r.status), body |-> TString(r.body),
          headers |-> convertHeaders(r.header)])

\* utils.go:301-309 (346-354).
Returning(q) ==
    IF ~ q.r.ok THEN [q EXCEPT !.pc = "done", !.ret = Ret(Nil, ErrTransport(q.fn, q.r.cause))]
    ELSE [q EXCEPT !.pc = "done", !.ret = Ret(ResponseMap(q.r), NoErr)]

ReqReturn ==
    /\ http.pc = "return"
    /\ http' = Returning(http)
    /\ UNCHANGED <<engineVars, polVars, valVars, concVars, logVars, bindVars>>

InitReq == ReqInit /\ EngineIdle /\ PolIdle /\ ValIdle /\ ConcIdle /\ LogIdle /\ BindIdle

NextReq == ReqCall \/ ReqAttempt \/ ReqReturn

SpecReq == InitReq /\ [][NextReq]_vars

-----------------------------------------------------------------------------
(* The log module (extras/log.go): debug, info, warn and error as a script *)
(* calls them.  The four functions differ in the level they log at.        *)

LogLevels == {"debug", "info", "warn", "error"}

ErrLogNoArgs(fn)  == [kind |-> "LogNoArgs", fn |-> fn]
ErrLogMessage(fn) == [kind |-> "LogMessage", fn |-> fn]
ErrLogOdd(fn)     == [kind |-> "LogOdd", fn |-> fn]
ErrLogKey(fn)     == [kind |-> "LogKey", fn |-> fn]

\* What a call comes to: it returns err (having emitted the records), or the
\* goroutine panics.
LogRet(err, records) == [panicked |-> FALSE, err |-> err, records |-> records]

LogPanic == [panicked |-> TRUE, err |-> NoErr, records |-> <<>>]

\* log.go:27-36: the loop over the pairs from argument i on, kv being the
\* pairs collected so far.  The key is tested after the value was asserted:
\* a value that is no String leaves v nil, and v.Value dereferences it.
RECURSIVE LogPairs(_, _, _, _)
LogPairs(fn, args, i, kv) ==
    IF i > Len(args) THEN LogRet(NoErr, <<[level |-> fn, msg |-> args[1].s, kv |-> kv]>>)
    ELSE IF args[i].o # "String" THEN LogRet(ErrLogKey(fn), <<>>)
         ELSE IF args[i + 1].o # "String" THEN LogPanic
              ELSE LogPairs(fn, args, i + 2, kv \o <<args[i].s, args[i + 1].s>>)

\* log.go:15-37 (41-63, 67-89, 93-115).
LogFn(fn, args) ==
    IF Len(args) = 0 THEN LogRet(ErrLogNoArgs(fn), <<>>)
    ELSE IF args[1].o # "String" THEN LogRet(ErrLogMessage(fn), <<>>)
         ELSE IF (Len(args) - 1) % 2 # 0 THEN LogRet(ErrLogOdd(fn), <<>>)
              ELSE LogPairs(fn, args, 2, <<>>)

LogArgPool == {TString("k"), TInt(7), TMap([x |-> TString("a")])}

LogInit ==
    \E fn \in LogLevels, args \in SeqsUpTo(LogArgPool, MaxArgs) :
        logCall = [pc |-> "call", fn |-> fn, args |-> args]

LogDone(r) ==
    [pc |-> "done", fn |-> logCall.fn, args |-> logCall.args,
     panicked |-> r.panicked, err |-> r.err, records |-> r.records]

LogCall ==
    /\ logCall.pc = "call"
    /\ logCall' = LogDone(LogFn(logCall.fn, logCall.args))
    /\ UNCHANGED <<engineVars, polVars, valVars, concVars, reqVars, bindVars>>

InitLog == LogInit /\ EngineIdle /\ PolIdle /\ ValIdle /\ ConcIdle /\ ReqIdle /\ BindIdle

NextLog == LogCall

SpecLog == InitLog /\ [][NextLog]_vars

-----------------------------------------------------------------------------
(* The env object in a script's hands.  createEnvVariable builds it when a *)
(* rule is compiled; the compiled program keeps it from one run to the     *)
(* next.  A script statement  env.<selectors> = v  walks the selectors with *)
(* IndexGet and ends in IndexSet on the object reached (tengo's             *)
(* indexAssign): an Array and a Map take the assignment in place, an        *)
(* ImmutableMap and every other object refuse it.                           *)

MaxWrites == 2

Key(k) == [key |-> k]
Idx(i) == [idx |-> i]

IsKey(sel) == DOMAIN sel = {"key"}

\* The children of an object, by selector.
Selectors(obj) ==
    CASE obj.o = "Array"            -> {Idx(i) : i \in 1..Len(obj.items)}
      [] obj.o \in {"Map", "ImmutableMap"} -> {Key(k) : k \in DOMAIN obj.m}
      [] OTHER                      -> {}

IndexGet(obj, sel) == IF IsKey(sel) THEN obj.m[sel.key] ELSE obj.items[sel.idx]

\* The object with the child under sel being c.
WithChild(obj, sel, c) ==
    IF IsKey(sel) THEN [obj EXCEPT !.m = MapSet(@, sel.key, c)]
    ELSE [obj EXCEPT !.items = [@ EXCEPT ![sel.idx] = c]]

\* IndexSet: Array and Map are index-assignable, nothing else is.
IndexSet(obj, sel, v) ==
    IF obj.o \in {"Array", "Map"} THEN [ok |-> TRUE, obj |-> WithChild(obj, sel, v)]
    ELSE [ok |-> FALSE, obj |-> obj]

RECURSIVE Paths(_)
Paths(obj) ==
    UNION {{<<sel>>} \cup {<<sel>> \o p : p \in Paths(IndexGet(obj, sel))} :
              sel \in Selectors(obj)}

\* indexAssign along path: the object reached is changed in place, so every
\* object on the way to it holds the changed one.
RECURSIVE AssignAt(_, _, _)
AssignAt(obj, path, v) ==
    IF Len(path) = 1 THEN IndexSet(obj, path[1], v)
    ELSE [ok  |-> AssignAt(IndexGet(obj, path[1]), Tail(path), v).ok,
          obj |-> WithChild(obj, path[1],
                            AssignAt(IndexGet(obj, path[1]), Tail(path), v).obj)]

EnvValuePool ==
    {GoString("v"), GoInt(1), GoBool(TRUE),
     GoMap([q |-> GoString("a")]),
     GoMap([tags |-> GoSlice(<<GoString("t")>>)]),
     GoSlice(<<GoString("t"), GoMap([q |-> GoString("a")])>>)}

BindInit ==
    \E v1 \in EnvValuePool, v2 \in EnvValuePool :
        bound = [pc |-> "bound", go |-> [k |-> v1, search |-> v2],
                 obj |-> createEnvVariable([isNil |-> FALSE, m |-> [k |-> v1, search |-> v2]]),
                 writes |-> 0, refused |-> 0]

Assigned(b, r) ==
    [b EXCEPT !.obj = r.obj, !.writes = @ + 1,
              !.refused = IF r.ok THEN @ ELSE @ + 1]

\* A run of the program executes  env.<path> = "z".
ScriptAssign ==
    /\ bound.pc = "bound"
    /\ bound.writes < MaxWrites
    /\ \E path \in Paths(bound.obj) :
          bound' = Assigned(bound, AssignAt(bound.obj, path, TString("z")))
    /\ UNCHANGED <<engineVars, polVars, valVars, concVars, reqVars, logVars>>

InitBind == BindInit /\ EngineIdle /\ PolIdle /\ ValIdle /\ ConcIdle /\ ReqIdle /\ LogIdle

NextBind == ScriptAssign

SpecBind == InitBind /\ [][NextBind]_vars

-----------------------------------------------------------------------------
(* Vocabulary of the properties.                                           *)

CategoryOps == {"SearchRule", "NovelInfoRule", "ChapterListRule", "ContentRule"}

InvocationOps == CategoryOps \cup {"RunRule", "RunRuleAndGetResult"}

\* Two category invocations in a row, of the same entry point, with caching
\* enabled (no operation in between, so enabled during both).
SamePair ==
    /\ nOps >= 2
    /\ prev.op \in CategoryOps
    /\ last.op = prev.op
    /\ CacheEnabled

\* The inputs a program was compiled with, as bound under the key of its rule.
BoundInputs(prog) ==
    IF Has(prog.env.m, EnvKeyOf(prog.rule))
    THEN <<prog.env.m[EnvKeyOf(prog.rule)]>>
    ELSE <<>>

BoundTo(prog, envVars) == BoundInputs(prog) = <<toTengoObject(GoMap(envVars))>>

Count(seq, x) == Cardinality({i \in 1..Len(seq) : seq[i] = x})

-----------------------------------------------------------------------------
(* Properties of the sequential specification Spec.                        *)

\* C1: with caching enabled, when a category entry point is invoked twice in
\* a row with equal inputs and the first invocation got a compiled program
\* (it compiled successfully or already found one), the second invocation
\* performs no compilation: it takes the program the first one left in the
\* cache and runs it again, so the pair produces at most one compile event,
\* and exactly one when the first invocation had to compile.
C1_SameInputsCompileOnce ==
    (SamePair /\ last.inputs = prev.inputs
       /\ prev.err.kind \notin {"RuleNotFound", "CompileError"})
    => /\ last.hit
       /\ last.compiles = 0
       /\ last.ran
       /\ last.ranProg = prev.ranAfter
       /\ prev.compiles + last.compiles = (IF prev.hit THEN 0 ELSE 1)

C1_Witness ==
    /\ SamePair /\ last.inputs = prev.inputs
    /\ prev.compiles = 1 /\ prev.ran
    /\ last.hit /\ last.compiles = 0

\* C2: with caching enabled, when a category entry point whose rule is
\* defined is invoked with inputs of fingerprint F1 and then with inputs of a
\* different fingerprint F2, the second invocation does not find the program
\* of the first in the cache: it compiles again, and any program it runs has
\* the F2 inputs bound in env.  The first invocation's program came from a
\* compilation of its own or an earlier one.
C2_ChangedInputsRecompile ==
    (SamePair /\ serializeEnv(last.inputs) # serializeEnv(prev.inputs)
       /\ Has(Rules, last.rule))
    => /\ ~ last.hit
       /\ last.compiles = 1
       /\ (prev.hit \/ prev.compiles = 1)
       /\ (last.ran => BoundTo(last.ranProg, last.inputs))
       /\ lastInputs[last.rule] = serializeEnv(last.inputs)

C2_Witness ==
    /\ SamePair /\ serializeEnv(last.inputs) # serializeEnv(prev.inputs)
    /\ prev.compiles = 1 /\ prev.ran
    /\ last.compiles = 1 /\ last.ran
    /\ BoundTo(last.ranProg, last.inputs)
    /\ ~ BoundTo(last.ranProg, prev.inputs)

\* C3: every rule identifier with a cached compiled program has a recorded
\* fingerprint, and it is the fingerprint of the inputs bound in env when
\* that program was compiled.
C3_CachedHasMatchingFingerprint ==
    \A r \in DOMAIN compiledCache :
        /\ Has(lastInputs, r)
        /\ LET b == BoundInputs(compiledCache[r])
           IN  /\ b # <<>>
               /\ b[1].o = "ImmutableMap"
               /\ lastInputs[r] = serializeEnv(ToInterface(b[1]).m)

\* C4: while caching is disabled the compiled-program cache and the
\* fingerprint table are empty, and an invocation made while it is disabled
\* never takes a cached program: it compiles whenever its rule is defined.
C4_DisabledMeansEmpty ==
    ~ CacheEnabled =>
        /\ compiledCache = EmptyMap
        /\ lastInputs = EmptyMap
        /\ (last.op \in InvocationOps =>
                /\ ~ last.hit
                /\ (Has(Rules, last.rule) => last.compiles = 1))

C4_Witness ==
    /\ ~ CacheEnabled
    /\ nOps = 3
    /\ prev.op = "DisableCache"
    /\ last.op \in CategoryOps
    /\ last.compiles = 1 /\ last.ran
    /\ compiledCache = EmptyMap /\ lastInputs = EmptyMap

\* C7: whenever the run of a rule's program fails, the invocation returns a
\* RuntimeError and no result.
C7_FailedRunIsRuntimeError ==
    (last.op \in InvocationOps /\ last.runFailed)
    => (last.err = ErrRuntime /\ last.out.nil)

\* C8: when the program completes and result was never assigned,
\* RunRuleAndGetResult and the category entry points fail with MissingResult.
C8_UnsetResultIsMissingResult ==
    (last.op \in InvocationOps \ {"RunRule"}
       /\ last.ran /\ ~ last.runFailed
       /\ last.ranAfter.result = Undefined)
    => last.err = ErrMissingResult

\* C9: an invocation of a rule identifier that has no rule definition fails
\* with RuleNotFound, compiles nothing, runs nothing, returns nothing, and
\* leaves no compiled program cached under that identifier, with caching
\* enabled or disabled.
C9_AbsentRuleNotFound ==
    (last.op \in InvocationOps /\ ~ Has(Rules, last.rule))
    => /\ last.err = ErrRuleNotFound
       /\ last.compiles = 0
       /\ ~ last.ran
       /\ last.out.nil
       /\ ~ Has(compiledCache, last.rule)

C9_Witness ==
    /\ last.op = "ContentRule"
    /\ ~ Has(Rules, "content")
    /\ last.err = ErrRuleNotFound
    /\ CacheEnabled
    /\ Has(lastInputs, "content")

-----------------------------------------------------------------------------
(* Properties of policy resolution, under SpecPolicy.                      *)

ImportStmtsOf(preamble) ==
    {preamble[i].name : i \in {j \in 1..Len(preamble) : preamble[j].kind = "import"}}

Denied(imp) == ~ HasPrefixFn(imp) /\ imp \in Range(polIn.deny)

\* C6: a capability import named in the deny list is in neither the allowed
\* capability names nor an import statement of the preamble nor the module
\* map, recognized or not, and each occurrence of it logs one warning.
C6_DenyPrecedence ==
    polOut.done =>
        \A imp \in Range(polIn.imports) :
            Denied(imp) =>
                /\ imp \notin Range(polOut.allowed)
                /\ imp \notin ImportStmtsOf(polOut.preamble)
                /\ imp \notin GetCustomModuleMap(polOut.allowed)
                /\ Count(polOut.log, LogRec("WARN", "Import denied", imp))
                       = Count(polIn.imports, imp)

C6_Witness ==
    /\ polOut.done
    /\ polIn.imports = << <<"os">>, <<"req">>, <<"os">> >>
    /\ polIn.deny = << <<"os">> >>
    /\ polOut.allowed = << <<"req">> >>
    /\ Count(polOut.log, LogRec("WARN", "Import denied", <<"os">>)) = 2

FnKeys == {TrimPrefixFn(polIn.imports[i]) : i \in {j \in 1..Len(polIn.imports) : HasPrefixFn(polIn.imports[j])}}

NoRepeatedImport ==
    \A i, j \in 1..Len(polIn.imports) : i # j => polIn.imports[i] # polIn.imports[j]

AbsentFn(imp) == HasPrefixFn(imp) /\ ~ Has(polIn.functions, TrimPrefixFn(imp))

\* A rule body that calls the identifier bound for key, placed after the
\* preamble as anko.go:119 places it, compiles with the resolved modules.
CallCompiles(key) ==
    CompileOK(polOut.preamble \o <<NL, BodyTok([refs |-> {GlobalName(key)}, outcomes |-> {}])>>,
              GetCustomModuleMap(polOut.allowed))

\* C16: for an import list without repeated imports, every fn: import whose
\* key is in the function table has, in the preamble, a binding of fn_<key
\* with '.' replaced by '_'> to the snippet's literal, and a rule body calling
\* that identifier compiles; the fn: imports whose key is absent add nothing:
\* the preamble and the allowed names are those of the list without them.
C16_FunctionInlining ==
    (polOut.done /\ NoRepeatedImport)
    => /\ \A key \in FnKeys :
              Has(polIn.functions, key)
              => /\ \E i \in 1..Len(polOut.preamble) :
                        polOut.preamble[i] = BindStmt(GlobalName(key), polIn.functions[key])
                 /\ CallCompiles(key)
       /\ LET rest == buildPreamble([Imports |-> SelectSeq(polIn.imports, LAMBDA imp : ~ AbsentFn(imp))],
                                    polIn.functions, polIn.deny)
          IN  polOut.preamble = rest.preamble /\ polOut.allowed = rest.allowed

IsCapability(imp) == ~ HasPrefixFn(imp)

Recognized(imp) == imp \in StdModuleNames \/ imp \in AllExtraModuleNames

Accepted(imp) == IsCapability(imp) /\ ~ Denied(imp) /\ Recognized(imp)

Skipped == SelectSeq(polIn.imports, LAMBDA imp : ~ Accepted(imp) /\ ~ (HasPrefixFn(imp) /\ ~ AbsentFn(imp)))

Warnings == SelectSeq(polOut.log, LAMBDA rec : rec.level = "WARN")

\* C17: resolution returns for every import list; the allowed names are the
\* capability imports that are not denied and are recognized, in declaration
\* order; and the warnings emitted are one per skipped import (denied,
\* unrecognized, or a function key absent from the table).
C17_AllowedExactOneWarningEach ==
    polOut.done
    => /\ polOut.allowed = SelectSeq(polIn.imports, Accepted)
       /\ Len(Warnings) = Len(Skipped)
       /\ Len(polOut.log) = Len(Warnings)

-----------------------------------------------------------------------------
(* Properties of validation, under SpecValidate.                           *)

IsRecord(obj) == obj.o \in {"Map", "ImmutableMap"}

ListCategory == valIn.category \in {"search", "chapter-list"}

\* C10: for search and chapter-list, a result sequence whose record elements
\* all carry title and url and which also holds non-record elements is
\* accepted, and the output is its record elements in their original order.
C10_NonRecordsDropped ==
    (/\ valOut.done /\ ListCategory
     /\ valIn.value.o = "Array"
     /\ \A i \in 1..Len(valIn.value.items) :
            IsRecord(valIn.value.items[i]) => {"title", "url"} \subseteq DOMAIN valIn.value.items[i].m
     /\ \E i \in 1..Len(valIn.value.items) : ~ IsRecord(valIn.value.items[i]))
    => /\ valOut.err = NoErr
       /\ valOut.out = GoSlice([i \in 1..Len(SelectSeq(valIn.value.items, IsRecord)) |->
                                   ToInterface(SelectSeq(valIn.value.items, IsRecord)[i])])

ListResult == valOut.done /\ ListCategory /\ valIn.value.o = "Array"

\* The record elements of the result that lack title or url, by position.
BadRecords ==
    {i \in 1..Len(valIn.value.items) :
        /\ IsRecord(valIn.value.items[i])
        /\ ~ ({"title", "url"} \subseteq DOMAIN valIn.value.items[i].m)}

FirstBadRecord == CHOOSE i \in BadRecords : \A j \in BadRecords : i <= j

FirstMissingOf(item) == IF "title" \notin DOMAIN item.m THEN "title" ELSE "url"

\* C11: for search and chapter-list, a result sequence with a record element
\* that lacks title or url fails with the missing-key error naming the
\* (0-based) index of the first such element and its first missing key, and
\* nothing is returned.
C11_MissingKeyNamesFirstRecord ==
    (ListResult /\ BadRecords # {})
    => /\ valOut.err = ErrItemKey(FirstBadRecord - 1,
                                  FirstMissingOf(valIn.value.items[FirstBadRecord]))
       /\ valOut.out = Nil

WrongTopLevel ==
    IF ListCategory THEN valIn.value.o # "Array" ELSE ~ IsRecord(valIn.value)

\* C12: a result whose top-level value has the wrong shape for its category
\* (not a sequence for search and chapter-list, not a record for info and
\* content) fails with a shape error: it is neither accepted nor reported as
\* a missing field.
C12_TopLevelShapeChecked ==
    (valOut.done /\ WrongTopLevel)
    => /\ valOut.err # NoErr
       /\ valOut.err.kind # "MissingKey"
       /\ valOut.out = Nil

InfoResult == valOut.done /\ valIn.category = "info" /\ valIn.value.o = "Map"

InfoOthers == {"title", "cover", "author", "description", "status"}

GenresIsSequence ==
    /\ "genres" \in DOMAIN valIn.value.m
    /\ valIn.value.m["genres"].o = "Array"

-----------------------------------------------------------------------------
(* Properties of the entry points end to end, under Spec.                  *)

\* The last operation was ContentRule, and the run of the content rule
\* completed with a record in result.
ContentRecord ==
    /\ last.op = "ContentRule"
    /\ last.ran /\ ~ last.runFailed
    /\ last.ranAfter.result.o = "Map"

\* C14: ContentRule on a rule whose run leaves a record in result returns
\* exactly that record and no error when the record has title and content,
\* and otherwise fails with the missing-field error naming the first missing
\* key of title, content and returns no record.
C14_ContentEndToEnd ==
    ContentRecord
    => IF {"title", "content"} \subseteq DOMAIN last.ranAfter.result.m
       THEN last.err = NoErr /\ last.out = ToInterface(last.ranAfter.result)
       ELSE /\ last.out = Nil
            /\ last.err = ErrKey(IF "title" \in DOMAIN last.ranAfter.result.m
                                 THEN "content" ELSE "title")

C14_Witness ==
    /\ ContentRecord
    /\ prev.op = "ContentRule" /\ prev.err = NoErr
    /\ prev.out = ToInterface(ContentGood)
    /\ last.ranAfter.result = ContentNoBody
    /\ last.err = ErrKey("content")

\* The last operation wrote key k of the environment itself.
Overwrote(k) == last.op \in CategoryOps /\ EnvKeyOf(last.rule) = k

\* C15: an invocation that follows AddEnvVar runs its rule with an env object
\* that maps every key of the environment the invocation did not overwrite
\* itself to the value stored under it, with caching on or off and whether or
\* not the rule had been compiled before.
C15_EnvVarSeenByNextRun ==
    (prev.op = "AddEnvVar" /\ last.op \in InvocationOps /\ last.ran)
    => \A k \in DOMAIN Env.m :
           \/ Overwrote(k)
           \/ /\ Has(last.ranProg.env.m, k)
              /\ last.ranProg.env.m[k] = toTengoObject(Env.m[k])

\* A hit runs the program that was in the cache, with the env it was
\* compiled with.
HitRunsCapturedEnv ==
    last'.hit => /\ Has(compiledCache, last'.rule)
                 /\ last'.ranProg.env = compiledCache[last'.rule].env

\* The env of a rule's cached program is set or replaced by a compilation of
\* that rule only, from the environment as the compilation finds it.
EnvReboundByCompileOnly ==
    \A r \in DOMAIN compiledCache' :
        (~ Has(compiledCache, r) \/ compiledCache'[r].env # compiledCache[r].env)
        => /\ last'.rule = r /\ last'.compiles = 1
           /\ compiledCache'[r].env = createEnvVariable(Env')

\* With caching enabled, a rule that has a cached program is compiled again
\* only by its category entry point called with a changed fingerprint.
RecompiledOnChangeOnly ==
    (CacheEnabled /\ last'.compiles = 1 /\ Has(compiledCache, last'.rule))
    => /\ last'.op \in CategoryOps
       /\ ~ Has(lastInputs, last'.rule) \/ lastInputs[last'.rule] # serializeEnv(last'.inputs)

\* C22: a cache hit runs the program with the env binding captured when the
\* rule was last compiled; later changes of the engine's environment reach a
\* rule's cached program only through a recompilation, which follows a
\* changed fingerprint or a disabled cache.
C22_HitUsesCapturedEnv ==
    [][HitRunsCapturedEnv /\ EnvReboundByCompileOnly /\ RecompiledOnChangeOnly]_vars

C22_Witness ==
    /\ prev.op = "AddEnvVar"
    /\ last.op \in InvocationOps /\ last.hit
    /\ last.ranProg.env # createEnvVariable(Env)
    /\ Has(compiledCache, last.rule)
    /\ compiledCache[last.rule].env = last.ranProg.env

-----------------------------------------------------------------------------
(* Properties of the concurrent specification SpecConc.                    *)

AllDone == \A p \in ProcIDs : procs[p].pc = "done"

\* C5: two concurrent invocations of one category entry point with inputs of
\* different fingerprints leave, once both have returned, a cached program
\* that was compiled with the inputs whose fingerprint is recorded for the
\* rule, and neither has run a program compiled with the other's inputs.
C5_ConcurrentCacheCoherent ==
    (AllDone /\ procs[1].key # procs[2].key)
    => /\ \A r \in DOMAIN compiledCache :
              /\ Has(lastInputs, r)
              /\ BoundInputs(compiledCache[r]) # <<>>
              /\ lastInputs[r] = serializeEnv(ToInterface(BoundInputs(compiledCache[r])[1]).m)
       /\ \A p \in ProcIDs :
              ~ procs[p].ranProg.nil => BoundTo(procs[p].ranProg, procs[p].inputs)

-----------------------------------------------------------------------------
(* Properties of the req module, under SpecReq.                            *)

Attempted == http.pc = "done" /\ Len(http.got) >= 1

\* C19: a call of get or post that passed its argument checks has sent the
\* request at most twice, a second time only after the first attempt failed
\* in the transport; it returns the response of the first attempt that got
\* one, and when both attempts failed it returns no value and an error that
\* wraps the failure of the second attempt.
C19_RetryOnce ==
    Attempted
    => /\ Len(http.sent) = Len(http.got)
       /\ Len(http.sent) <= 2
       /\ \A k \in 2..Len(http.got) : ~ http.got[k - 1].ok
       /\ IF http.got[Len(http.got)].ok
          THEN http.ret = Ret(ResponseMap(http.got[Len(http.got)]), NoErr)
          ELSE /\ Len(http.got) = 2
               /\ http.ret = Ret(Nil, ErrTransport(http.fn, http.got[2].cause))

C19_Witness ==
    /\ Attempted
    /\ http.fn = "post"
    /\ Len(http.got) = 2
    /\ ~ http.got[1].ok /\ http.got[2].ok
    /\ http.ret.out = ResponseMap(Response(2, 200))

\* C20: get called with a string url and a headers mapping is not rejected
\* for its argument count, and the request it sends carries those headers.
C20_GetTakesHeaders ==
    (/\ http.pc = "done" /\ http.fn = "get"
     /\ Len(http.args) = 2
     /\ http.args[1].o = "String" /\ http.args[2].o = "Map")
    => /\ http.ret.err # ErrArgCount("get")
       /\ Len(http.sent) >= 1
       /\ \A k \in 1..Len(http.sent) : http.sent[k].headers = ToHeaders(http.args[2])

-----------------------------------------------------------------------------
(* Properties of the log module, under SpecLog.                            *)

LogCalled == logCall.pc = "done" /\ Len(logCall.args) >= 1 /\ logCall.args[1].o = "String"

StringKeys == \A i \in 2..Len(logCall.args) : i % 2 = 0 => logCall.args[i].o = "String"

\* C21: a log function called with a string message and n trailing arguments
\* returns an error and emits no record when n is odd; when n is even and
\* the keys are strings it emits exactly one record and returns no error,
\* whatever the types of the values, and the host is not aborted.
C21_LogPairs ==
    LogCalled
    => /\ ~ logCall.panicked
       /\ (Len(logCall.args) - 1) % 2 = 1
              => logCall.err # NoErr /\ logCall.records = <<>>
       /\ ((Len(logCall.args) - 1) % 2 = 0 /\ StringKeys)
              => logCall.err = NoErr /\ Len(logCall.records) = 1

-----------------------------------------------------------------------------
(* Properties of the env object, under SpecBind.                           *)

\* C23: whatever assignments a script makes through env, the env object of
\* the program holds what createEnvVariable built from the environment: the
\* next run of the cached program finds the same contents.
C23_EnvObjectImmutable ==
    bound.pc = "bound"
    => bound.obj = createEnvVariable([isNil |-> FALSE, m |-> bound.go])

-----------------------------------------------------------------------------
(* DisableCache among concurrent invocations, under SpecConc.              *)

\* C24: once DisableCache and the invocations in flight with it have all
\* returned, caching is disabled and the compiled-program cache and the
\* fingerprint table are both empty.
C24_DisableCacheAtomic ==
    (AllDone /\ procs[AdminID].pc = "disabled")
    => /\ ~ CacheEnabled
       /\ compiledCache = EmptyMap
       /\ lastInputs = EmptyMap


\* C25: in every reachable state the rule identifiers with a recorded
\* fingerprint are exactly those with a cached compiled program, and an
\* invocation that failed with RuleNotFound or CompileError leaves neither
\* a program nor a fingerprint for its rule identifier.
C25_EntryOnlyBySuccessfulCompile ==
    /\ DOMAIN lastInputs = DOMAIN compiledCache
    /\ (last.op \in InvocationOps /\ last.err \in {ErrRuleNotFound, ErrCompile})
       => /\ ~ Has(compiledCache, last.rule)
          /\ ~ Has(lastInputs, last.rule)

\* The capabilities the program of the last invocation was compiled with.
RanModules == IF last.ran THEN last.ranProg.modules ELSE {}

\* C26: no program executed by an invocation has a capability of the deny
\* list in force at that invocation, programs compiled and cached before
\* the deny list was set included.
C26_DenyListCoversCachedPrograms ==
    (last.op \in InvocationOps /\ last.ran)
    => RanModules \cap Range(denyLibs) = {}


\* The text RunRule compiles (anko.go:119) for a rule body that refers to
\* nothing: the preamble, a line break, the body.
PreambleThenBody == polOut.preamble \o <<NL, BodyTok([refs |-> {}, outcomes |-> {}])>>

\* C27: for every import order the preamble followed by the rule body is a
\* well-formed sequence of statements: every binding and every import is
\* separated from the statement after it by a line break, and the body
\* starts on its own line.
C27_PreambleWellFormed ==
    polOut.done => WellFormed(PreambleThenBody, FALSE)


\* The step is a call of a category entry point.
CategoryStep == nOps' = nOps + 1 /\ last'.op \in CategoryOps

\* Mapping m and mapping n agree on every key but k.
SameButAt(m, n, k) ==
    \A r \in (DOMAIN m \cup DOMAIN n) \ {k} :
        /\ Has(m, r) = Has(n, r)
        /\ Has(m, r) => m[r] = n[r]

\* C28: a call of a category entry point leaves the cached program and the
\* recorded fingerprint of every rule identifier other than its own as they
\* were, whether it succeeds or fails.
C28_OnlyOwnRuleEntryChanges ==
    [][CategoryStep
       => /\ SameButAt(compiledCache, compiledCache', last'.rule)
          /\ SameButAt(lastInputs, lastInputs', last'.rule)]_vars

C28_Witness ==
    /\ last.op \in CategoryOps /\ prev.op \in CategoryOps
    /\ prev.rule # last.rule
    /\ last.compiles = 1
    /\ Has(compiledCache, prev.rule) /\ Has(lastInputs, prev.rule)
    /\ Has(compiledCache, last.rule) /\ Has(lastInputs, last.rule)

\* C29 as stated: a call of a category entry point leaves the environment
\* holding its inputs under the key equal to its rule identifier, on success
\* and on error, and every other key as it was.
C29_InputsUnderRuleIdentifier ==
    [][CategoryStep
       => /\ Has(Env'.m, last'.rule)
          /\ Env'.m[last'.rule] = GoMap(last'.inputs)
          /\ SameButAt(Env.m, Env'.m, last'.rule)]_vars

\* C29 amended: the key is the rule identifier for search, info and content,
\* and "chapter_list" for chapter-list; the inputs are stored under it, on
\* success and on error, and every other key is as it was.
C29_InputsUnderEnvKey ==
    [][CategoryStep
       => /\ ~ Env'.isNil
          /\ Has(Env'.m, EnvKeyOf(last'.rule))
          /\ Env'.m[EnvKeyOf(last'.rule)] = GoMap(last'.inputs)
          /\ SameButAt(Env.m, Env'.m, EnvKeyOf(last'.rule))]_vars

C29_Witness ==
    /\ last.op = "ChapterListRule" /\ prev.op = "ChapterListRule"
    /\ prev.inputs # last.inputs
    /\ last.err # NoErr
    /\ Env.m["chapter_list"] = GoMap(last.inputs)
    /\ \E k \in DOMAIN Env.m : k # "chapter_list"

====
